---- MODULE Spec2Model ----
(***************************************************************************)
(* Model of the Completion client (src/src/completion.ts): the constructor *)
(* that resolves the API key and URL, and the asynchronous log operation   *)
(* that validates a record, builds the wire payload and issues one POST.   *)
(*                                                                         *)
(* JavaScript values are modelled as strings: UNDEF is undefined, NULL is  *)
(* null, "" is the empty string, every other string is a non-empty string  *)
(* or (for the message lists) a non-empty array.                           *)
(***************************************************************************)
EXTENDS Naturals, Sequences, FiniteSets, TLC

\* Number of log calls that may be in progress on the instance.
MaxCalls == 2

CallIds == 1..MaxCalls

UNDEF == "undefined"
NULL == "null"

\* JavaScript ToBoolean on the modelled values (used by the ! operator).
Truthy(v) == v \notin {UNDEF, NULL, ""}

\* src/src/constants: the built-in endpoint.
DEFAULT_API_URL == "https://default.endpoint/api/v1/logs"

ErrApiKeyMissing ==
  "API key is missing. Please provide an API key or set the COMPLETION_API_KEY environment variable."
ErrTemplateName == "Template name is required."
ErrRequired ==
  "Either promptTemplate, messagesTemplate, compiledPrompt, or compiledMessages is required."
ErrOnlyOne ==
  "Only one of promptTemplate, messagesTemplate, compiledPrompt, or compiledMessages is allowed."
NoError == ""

SuccessPrefix == "Completion logged successfully:"
ErrorPrefix == "Error logging completion:"

----------------------------------------------------------------------------
(* Input domains *)

ApiKeyValues == {UNDEF, "", "test_api_key"}
EnvValues == {UNDEF, "", "env_api_key"}
ApiUrlValues == {UNDEF, "http://testurl.com"}

ConstructorOptions == [apiKey : ApiKeyValues, apiUrl : ApiUrlValues]

StringValues == {UNDEF, "", "Hello, {{name}}"}
MessageValues == {UNDEF, NULL, "[{role: system}]"}

\* The records of type CompletionOptions handed to log.
CompletionOptions ==
  [logId : {UNDEF, "", "caller-log-id"},
   templateName : {UNDEF, "", "testTemplate"},
   promptTemplate : StringValues,
   messagesTemplate : MessageValues,
   promptArguments : {UNDEF, "{name: world}"},
   model : {UNDEF, "test_model"},
   modelArguments : {UNDEF, "{temperature: 0.5}"},
   output : {UNDEF, "Hello, world!"},
   compiledPrompt : StringValues,
   compiledMessages : MessageValues,
   metadata : {UNDEF, "{key: value}"},
   parser : {UNDEF, "handlebars"}]

\* The records used when several calls run concurrently: every call draws its
\* logId from the shared generator.
ConcurrentOptions ==
  [logId : {UNDEF},
   templateName : {"", "testTemplate"},
   promptTemplate : StringValues,
   messagesTemplate : {UNDEF},
   promptArguments : {UNDEF},
   model : {UNDEF, "test_model"},
   modelArguments : {UNDEF},
   output : {"Hello, world!"},
   compiledPrompt : {UNDEF, "Hello, world"},
   compiledMessages : {UNDEF},
   metadata : {UNDEF},
   parser : {UNDEF}]

NoOptions ==
  [logId |-> UNDEF, templateName |-> UNDEF, promptTemplate |-> UNDEF,
   messagesTemplate |-> UNDEF, promptArguments |-> UNDEF, model |-> UNDEF,
   modelArguments |-> UNDEF, output |-> UNDEF, compiledPrompt |-> UNDEF,
   compiledMessages |-> UNDEF, metadata |-> UNDEF, parser |-> UNDEF]

TransportErrors == {"Network Error", "Request failed with status code 500"}
ResponseData == {"Success"}

----------------------------------------------------------------------------
VARIABLES
  env,        \* process.env.COMPLETION_API_KEY
  config,     \* the options the constructor was called with
  inst,       \* the Completion instance: state, apiKey, apiUrl, error
  call,       \* per log call: pc, options, logId, steps, error
  transport,  \* per log call: the state of its axios.post promise
  posts,      \* the invocations of axios.post, in order
  console,    \* the console.log / console.error records, in order
  uuidCalls   \* number of invocations of uuidv4

vars == <<env, config, inst, call, transport, posts, console, uuidCalls>>

----------------------------------------------------------------------------
(* Constructor *)

\* Variant: the environment variable takes precedence over the option.
ResolveApiKey_EnvFirst(options, e) ==
  IF e \notin {UNDEF, NULL} THEN e
  ELSE IF options.apiKey \notin {UNDEF, NULL} THEN options.apiKey
  ELSE ""

\* options?.apiKey ?? process.env.COMPLETION_API_KEY ?? ''
ResolveApiKey(options, e) ==
  IF options.apiKey \notin {UNDEF, NULL} THEN options.apiKey
  ELSE IF e \notin {UNDEF, NULL} THEN e
  ELSE ""

\* options?.apiUrl ?? DEFAULT_API_URL
ResolveApiUrl(options) ==
  IF options.apiUrl \notin {UNDEF, NULL} THEN options.apiUrl ELSE DEFAULT_API_URL

\* new Completion(options); an absent options object reads as all-undefined
\* through the optional chaining.
Construct(options) ==
  /\ inst.state = "none"
  /\ config' = options
  /\ LET key == ResolveApiKey(options, env) IN
       IF Len(key) = 0
         THEN inst' = [state |-> "failed", apiKey |-> key, apiUrl |-> UNDEF,
                       error |-> ErrApiKeyMissing]
         ELSE inst' = [state |-> "constructed", apiKey |-> key,
                       apiUrl |-> ResolveApiUrl(options), error |-> NoError]
  /\ UNCHANGED <<env, call, transport, posts, console, uuidCalls>>

----------------------------------------------------------------------------
(* log: the synchronous part, up to the await *)

\* The identifier the n-th invocation of uuidv4 returns.
Uuidv4(n) == "uuid-" \o ToString(n)

\* The destructuring default: logId = uuidv4() is evaluated when options.logId
\* is undefined.
NeedsUuid(options) == options.logId = UNDEF

\* if (!templateName)
TemplateNameMissing(options) == ~Truthy(options.templateName)

\* if (!promptTemplate && !messagesTemplate && !compiledPrompt && !compiledMessages)
NoPromptSource(options) ==
  /\ ~Truthy(options.promptTemplate)
  /\ ~Truthy(options.messagesTemplate)
  /\ ~Truthy(options.compiledPrompt)
  /\ ~Truthy(options.compiledMessages)

SourceFields ==
  {"promptTemplate", "messagesTemplate", "compiledPrompt", "compiledMessages"}

\* [...].filter(x => x !== undefined).length
DefinedSources(options) ==
  Cardinality({f \in SourceFields : options[f] # UNDEF})

\* Variant: the bound of the third check is off by one.
TooManySources_Above2(options) == DefinedSources(options) > 2

\* Variant: the third check counts truthy values, as the second check does.
TooManySources_Truthy(options) ==
  Cardinality({f \in SourceFields : Truthy(options[f])}) > 1

\* if ([...].filter(x => x !== undefined).length > 1)
TooManySources(options) == DefinedSources(options) > 1

\* The error thrown by the three checks, in the order of the code; NoError
\* when all three pass.
ValidationError(options) ==
  IF TemplateNameMissing(options) THEN ErrTemplateName
  ELSE IF NoPromptSource(options) THEN ErrRequired
  ELSE IF TooManySources(options) THEN ErrOnlyOne
  ELSE NoError

\* Variant: the identifier is generated lazily, after the three checks.
SyncSteps_LazyUuid(options) ==
  <<"check1">>
  \o (IF TemplateNameMissing(options) THEN <<"throw">>
      ELSE <<"check2">>
        \o (IF NoPromptSource(options) THEN <<"throw">>
            ELSE <<"check3">>
              \o (IF TooManySources(options) THEN <<"throw">>
                  ELSE (IF NeedsUuid(options) THEN <<"uuidv4">> ELSE <<>>)
                       \o <<"payload", "post">>)))

\* The steps the synchronous part of log executes, in execution order.
SyncSteps(options) ==
  (IF NeedsUuid(options) THEN <<"uuidv4">> ELSE <<>>)
  \o <<"check1">>
  \o (IF TemplateNameMissing(options) THEN <<"throw">>
      ELSE <<"check2">>
        \o (IF NoPromptSource(options) THEN <<"throw">>
            ELSE <<"check3">>
              \o (IF TooManySources(options) THEN <<"throw">>
                  ELSE <<"payload", "post">>)))

\* Variant: the payload object is shared between calls, so a later call
\* posts the object the first call filled in.
BuildPayload_Shared(options, logId) ==
  IF posts # <<>> THEN posts[1].payload
  ELSE [log_id |-> logId,
        template_name |-> options.templateName,
        prompt_template |-> options.promptTemplate,
        messages_template |-> options.messagesTemplate,
        prompt_arguments |-> options.promptArguments,
        model |-> options.model,
        model_arguments |-> options.modelArguments,
        output |-> options.output,
        compiled_prompt |-> options.compiledPrompt,
        compiled_messages |-> options.compiledMessages,
        metadata |-> options.metadata,
        parser |-> options.parser]

\* const payload = {...}
BuildPayload(options, logId) ==
  [log_id |-> logId,
   template_name |-> options.templateName,
   prompt_template |-> options.promptTemplate,
   messages_template |-> options.messagesTemplate,
   prompt_arguments |-> options.promptArguments,
   model |-> options.model,
   model_arguments |-> options.modelArguments,
   output |-> options.output,
   compiled_prompt |-> options.compiledPrompt,
   compiled_messages |-> options.compiledMessages,
   metadata |-> options.metadata,
   parser |-> options.parser]

\* Variant: the POST goes to the built-in endpoint whatever the instance holds.
PostRequest_DefaultUrl(c, i, payload) ==
  [caller |-> c, url |-> DEFAULT_API_URL, payload |-> payload,
   Authorization |-> "Bearer " \o i.apiKey]

\* axios.post(this.apiUrl, payload, {headers: {Authorization: `Bearer ${this.apiKey}`}})
PostRequest(c, i, payload) ==
  [caller |-> c, url |-> i.apiUrl, payload |-> payload,
   Authorization |-> "Bearer " \o i.apiKey]

\* Whether the synchronous part invokes uuidv4.
InvokesUuid(options) ==
  \E k \in 1..Len(SyncSteps(options)) : SyncSteps(options)[k] = "uuidv4"

\* The call log(options) by caller c, for a record of the set records:
\* destructuring, validation, payload and the POST; the function then
\* suspends at the await.
Log(c, records) ==
  /\ inst.state = "constructed"
  /\ call[c].pc = "idle"
  /\ \E options \in records :
     LET gen == InvokesUuid(options)
         logId == IF gen THEN Uuidv4(uuidCalls + 1) ELSE options.logId
         err == ValidationError(options)
     IN
       /\ uuidCalls' = IF gen THEN uuidCalls + 1 ELSE uuidCalls
       /\ IF err # NoError
            THEN /\ call' = [call EXCEPT ![c] =
                       [pc |-> "rejected", options |-> options, logId |-> logId,
                        steps |-> SyncSteps(options), error |-> err]]
                 /\ UNCHANGED <<posts, transport>>
            ELSE /\ call' = [call EXCEPT ![c] =
                       [pc |-> "awaiting", options |-> options, logId |-> logId,
                        steps |-> SyncSteps(options), error |-> NoError]]
                 /\ posts' = Append(posts,
                       PostRequest(c, inst, BuildPayload(options, logId)))
                 /\ transport' = [transport EXCEPT ![c] =
                       [state |-> "pending", detail |-> UNDEF]]
  /\ UNCHANGED <<env, config, inst, console>>

----------------------------------------------------------------------------
(* The transport (axios.post) settles the promise of a pending request *)

TransportFulfil(c, data) ==
  /\ transport[c].state = "pending"
  /\ transport' = [transport EXCEPT ![c] = [state |-> "fulfilled", detail |-> data]]
  /\ UNCHANGED <<env, config, inst, call, posts, console, uuidCalls>>

TransportReject(c, error) ==
  /\ transport[c].state = "pending"
  /\ transport' = [transport EXCEPT ![c] = [state |-> "rejected", detail |-> error]]
  /\ UNCHANGED <<env, config, inst, call, posts, console, uuidCalls>>

----------------------------------------------------------------------------
(* log: the continuation after the await *)

\* try { ...; console.log('Completion logged successfully:', response.data) }
OnFulfilled(c, data) ==
  [pc |-> "resolved",
   out |-> <<[stream |-> "log", prefix |-> SuccessPrefix, detail |-> data,
              caller |-> c]>>]

\* Variant: the catch block reports the error and throws it again.
OnRejected_Rethrow(c, error) ==
  [pc |-> "rejected",
   out |-> <<[stream |-> "error", prefix |-> ErrorPrefix, detail |-> error,
              caller |-> c]>>]

\* catch (error) { console.error('Error logging completion:', error) }
OnRejected(c, error) ==
  [pc |-> "resolved",
   out |-> <<[stream |-> "error", prefix |-> ErrorPrefix, detail |-> error,
              caller |-> c]>>]

LogResume(c) ==
  /\ call[c].pc = "awaiting"
  /\ transport[c].state \in {"fulfilled", "rejected"}
  /\ LET r == IF transport[c].state = "fulfilled"
                THEN OnFulfilled(c, transport[c].detail)
                ELSE OnRejected(c, transport[c].detail)
     IN /\ call' = [call EXCEPT ![c].pc = r.pc,
                                ![c].steps = @ \o <<"resume">>]
        /\ console' = console \o r.out
  /\ UNCHANGED <<env, config, inst, transport, posts, uuidCalls>>

----------------------------------------------------------------------------
(* Specifications *)

IdleCall ==
  [pc |-> "idle", options |-> NoOptions, logId |-> UNDEF, steps |-> <<>>,
   error |-> NoError]

InitCalls ==
  /\ call = [c \in CallIds |-> IdleCall]
  /\ transport = [c \in CallIds |-> [state |-> "idle", detail |-> UNDEF]]
  /\ posts = <<>>
  /\ console = <<>>
  /\ uuidCalls = 0

\* Before construction: one instance, one log call, every record.
Init ==
  /\ env \in EnvValues
  /\ config = [apiKey |-> UNDEF, apiUrl |-> UNDEF]
  /\ inst = [state |-> "none", apiKey |-> UNDEF, apiUrl |-> UNDEF, error |-> NoError]
  /\ InitCalls

Next ==
  \/ \E options \in ConstructorOptions : Construct(options)
  \/ Log(1, CompletionOptions)
  \/ \E data \in ResponseData : TransportFulfil(1, data)
  \/ \E error \in TransportErrors : TransportReject(1, error)
  \/ LogResume(1)

Spec == Init /\ [][Next]_vars

\* After construction: MaxCalls log calls interleaved on one instance.
InitConstructed ==
  /\ env = UNDEF
  /\ config \in [apiKey : {"test_api_key"}, apiUrl : ApiUrlValues]
  /\ inst = [state |-> "constructed", apiKey |-> ResolveApiKey(config, env),
             apiUrl |-> ResolveApiUrl(config), error |-> NoError]
  /\ InitCalls

NextConcurrent ==
  \/ \E c \in CallIds : Log(c, ConcurrentOptions)
  \/ \E c \in CallIds, data \in ResponseData : TransportFulfil(c, data)
  \/ \E c \in CallIds, error \in TransportErrors : TransportReject(c, error)
  \/ \E c \in CallIds : LogResume(c)

SpecConcurrent == InitConstructed /\ [][NextConcurrent]_vars

----------------------------------------------------------------------------
(* Vocabulary of the properties *)

Started(c) == call[c].pc # "idle"

\* The invocations of axios.post made by call c.
PostsBy(c) == {k \in 1..Len(posts) : posts[k].caller = c}

\* The console records call c wrote to a stream ("log" or "error").
ConsoleBy(c, stream) ==
  {k \in 1..Len(console) : console[k].caller = c /\ console[k].stream = stream}

\* A field is present when it is not undefined.
PresentSources(options) == {f \in SourceFields : options[f] # UNDEF}

WireSourceFields ==
  {"prompt_template", "messages_template", "compiled_prompt", "compiled_messages"}

ValidationMessages == {ErrTemplateName, ErrRequired, ErrOnlyOne}

Has(seq, e) == \E k \in 1..Len(seq) : seq[k] = e
Pos(seq, e) == CHOOSE k \in 1..Len(seq) : seq[k] = e
Count(seq, e) == Cardinality({k \in 1..Len(seq) : seq[k] = e})

\* The wire payload carries the record's fields under the wire names.
PayloadMatches(payload, options) ==
  /\ payload.template_name = options.templateName
  /\ payload.prompt_template = options.promptTemplate
  /\ payload.messages_template = options.messagesTemplate
  /\ payload.prompt_arguments = options.promptArguments
  /\ payload.model = options.model
  /\ payload.model_arguments = options.modelArguments
  /\ payload.output = options.output
  /\ payload.compiled_prompt = options.compiledPrompt
  /\ payload.compiled_messages = options.compiledMessages
  /\ payload.metadata = options.metadata
  /\ payload.parser = options.parser

----------------------------------------------------------------------------
C2_TransportFailureSwallowed ==
  \A c \in CallIds :
    /\ Cardinality(PostsBy(c)) <= 1
    /\ transport[c].state = "rejected" =>
         /\ call[c].pc \in {"awaiting", "resolved"}
         /\ call[c].error = NoError
         /\ Cardinality(PostsBy(c)) = 1
         /\ ConsoleBy(c, "log") = {}
         /\ call[c].pc = "awaiting" => ConsoleBy(c, "error") = {}
         /\ call[c].pc = "resolved" =>
              /\ Cardinality(ConsoleBy(c, "error")) = 1
              /\ \A k \in ConsoleBy(c, "error") :
                   /\ console[k].prefix = "Error logging completion:"
                   /\ console[k].detail = transport[c].detail
                   /\ console[k].detail \in TransportErrors

\* A call resumed after its POST failed with a network error.
C2_Witness ==
  /\ call[1].pc = "resolved"
  /\ transport[1] = [state |-> "rejected", detail |-> "Network Error"]
  /\ Len(console) = 1

C4_TwoSourcesGetOnlyOneMessage ==
  \A c \in CallIds :
    ( /\ Started(c)
      /\ Truthy(call[c].options.templateName)
      /\ Cardinality(PresentSources(call[c].options)) >= 2 )
    => /\ call[c].pc = "rejected"
       /\ call[c].error = ErrOnlyOne

\* C5 as stated: with logId absent, uuidv4 is invoked only after validation
\* passes; never in a rejected call, and in an accepted call after the last
\* check and before the POST.
C5_UuidAfterValidation ==
  \A c \in CallIds :
    (Started(c) /\ call[c].options.logId = UNDEF) =>
      LET st == call[c].steps IN
        /\ call[c].pc = "rejected" => ~Has(st, "uuidv4")
        /\ call[c].pc # "rejected" =>
             /\ Has(st, "uuidv4")
             /\ Pos(st, "check3") < Pos(st, "uuidv4")
             /\ Pos(st, "uuidv4") < Pos(st, "post")

\* C5 amended: with logId absent, uuidv4 is invoked exactly once in every
\* log call, rejected or accepted, as the first step of the call: before the
\* first validation check and, in an accepted call, before the POST. With
\* logId supplied it is not invoked.
C5_UuidBeforeValidation ==
  /\ uuidCalls = Cardinality({c \in CallIds :
                    Started(c) /\ call[c].options.logId = UNDEF})
  /\ \A c \in CallIds :
       Started(c) =>
         LET st == call[c].steps IN
           IF call[c].options.logId = UNDEF
             THEN /\ Count(st, "uuidv4") = 1
                  /\ st[1] = "uuidv4"
                  /\ Pos(st, "uuidv4") < Pos(st, "check1")
                  /\ Has(st, "post") => Pos(st, "uuidv4") < Pos(st, "post")
                  /\ call[c].logId \notin {UNDEF, NULL, ""}
             ELSE /\ ~Has(st, "uuidv4")
                  /\ call[c].logId = call[c].options.logId

\* A call without logId was rejected for its missing template name, and
\* uuidv4 has been invoked.
C5_Witness ==
  /\ call[1].pc = "rejected"
  /\ call[1].error = ErrTemplateName
  /\ call[1].options.logId = UNDEF
  /\ uuidCalls = 1

\* C6: construction takes the API key from the apiKey option, else from
\* COMPLETION_API_KEY, else the empty string; it fails with "API key is
\* missing" exactly when that key is empty, so no instance has an empty
\* apiKey; with a (non-empty) explicit key, or with only the environment
\* variable, it succeeds and the instance exposes that key and the given
\* apiUrl or the built-in default.
C6_ConstructionResolvesKey ==
  inst.state # "none" =>
    LET resolved == IF config.apiKey # UNDEF THEN config.apiKey
                    ELSE IF env # UNDEF THEN env
                    ELSE ""
    IN
      /\ (inst.state = "failed") <=> (resolved = "")
      /\ inst.state = "failed" => inst.error = ErrApiKeyMissing
      /\ inst.state = "constructed" =>
           /\ inst.apiKey = resolved
           /\ inst.apiKey # ""
           /\ inst.apiUrl = IF config.apiUrl # UNDEF THEN config.apiUrl
                            ELSE DEFAULT_API_URL
      /\ Truthy(config.apiKey) =>
           inst.state = "constructed" /\ inst.apiKey = config.apiKey
      /\ (config.apiKey = UNDEF /\ Truthy(env)) =>
           inst.state = "constructed" /\ inst.apiKey = env
      /\ (config.apiKey = UNDEF /\ env = UNDEF) => inst.state = "failed"

\* An instance built from the environment variable alone, with the default URL.
C6_Witness ==
  /\ inst.state = "constructed"
  /\ config = [apiKey |-> UNDEF, apiUrl |-> UNDEF]
  /\ inst.apiKey = "env_api_key"
  /\ inst.apiUrl = DEFAULT_API_URL

\* C7: for a record that passes validation log issues exactly one POST, to
\* the instance's apiUrl, with Authorization "Bearer " followed by the
\* instance's apiKey and a payload whose wire fields equal the record's
\* fields; a caller-supplied logId is passed through unmodified; when the
\* POST succeeds log resolves with one success diagnostic and no error
\* diagnostic.
C7_OnePostWithMappedPayload ==
  \A c \in CallIds :
    call[c].pc \in {"awaiting", "resolved"} =>
      /\ Cardinality(PostsBy(c)) = 1
      /\ \A k \in PostsBy(c) :
           /\ posts[k].url = inst.apiUrl
           /\ posts[k].Authorization = "Bearer " \o inst.apiKey
           /\ PayloadMatches(posts[k].payload, call[c].options)
           /\ posts[k].payload.log_id # UNDEF
           /\ call[c].options.logId # UNDEF =>
                posts[k].payload.log_id = call[c].options.logId
      /\ transport[c].state = "fulfilled" =>
           /\ ConsoleBy(c, "error") = {}
           /\ call[c].pc = "resolved" =>
                /\ Cardinality(ConsoleBy(c, "log")) = 1
                /\ \A k \in ConsoleBy(c, "log") :
                     /\ console[k].prefix = "Completion logged successfully:"
                     /\ console[k].detail = transport[c].detail

\* A call with a caller-supplied logId, posted to the configured URL, whose
\* POST succeeded and which has resumed.
C7_Witness ==
  /\ call[1].pc = "resolved"
  /\ transport[1].state = "fulfilled"
  /\ call[1].options.logId = "caller-log-id"
  /\ config.apiUrl = "http://testurl.com"
  /\ Len(posts) = 1

\* The message of the first violated rule, with "present" read as "not
\* undefined"; NoError when no rule is violated.
FirstViolatedRule(options) ==
  IF options.templateName \in {UNDEF, NULL, ""} THEN ErrTemplateName
  ELSE IF PresentSources(options) = {} THEN ErrRequired
  ELSE IF Cardinality(PresentSources(options)) > 1 THEN ErrOnlyOne
  ELSE NoError

\* C8: a rejected log call reports exactly one validation error, whose
\* message is that of the first violated rule in the order (1) templateName
\* required, (2) at least one prompt source required, (3) at most one prompt
\* source allowed.
C8_FirstViolatedRuleDecidesMessage ==
  \A c \in CallIds :
    call[c].pc = "rejected" =>
      /\ call[c].error \in ValidationMessages
      /\ Count(call[c].steps, "throw") = 1
      /\ call[c].error = FirstViolatedRule(call[c].options)

----------------------------------------------------------------------------
(* Concurrent calls *)

\* log never writes the instance.
InstanceUnchanged == inst' = inst

\* A step changes the state of at most one call and of at most one request.
OneCallPerStep ==
  \A c, d \in CallIds :
    (c # d /\ (call'[c] # call[c] \/ transport'[c] # transport[c]))
      => (call'[d] = call[d] /\ transport'[d] = transport[d])

\* A call once rejected or resolved keeps its outcome.
OutcomeStable ==
  \A c \in CallIds :
    call[c].pc \in {"rejected", "resolved"} => call'[c] = call[c]

\* Every POST carries the payload of the record of the call that issued it.
OwnPayload ==
  \A k \in 1..Len(posts) :
    LET c == posts[k].caller IN
      /\ PayloadMatches(posts[k].payload, call[c].options)
      /\ posts[k].payload.log_id = call[c].logId
      /\ posts[k].url = inst.apiUrl
      /\ PostsBy(c) = {k}

\* Calls with the same validation fields have the same validation outcome,
\* whatever the other calls did.
SameRecordSameOutcome ==
  \A c, d \in CallIds :
    ( /\ Started(c) /\ Started(d)
      /\ call[c].options.templateName = call[d].options.templateName
      /\ \A f \in SourceFields : call[c].options[f] = call[d].options[f] )
    => /\ (call[c].pc = "rejected") <=> (call[d].pc = "rejected")
       /\ call[c].error = call[d].error

\* C9: for log calls running concurrently on one instance, under every
\* interleaving of their steps, apiKey and apiUrl keep their values, each
\* POST carries the payload built from its own call's record, and no call's
\* outcome or payload is changed by another call.
C9_ConcurrentCallsIndependent ==
  /\ [][InstanceUnchanged /\ OneCallPerStep /\ OutcomeStable]_vars
  /\ [](OwnPayload /\ SameRecordSameOutcome)

\* Call 2 posted first and is still awaiting; call 1 posted another payload
\* afterwards, its POST failed and it has resumed.
C9_Witness ==
  /\ Len(posts) = 2
  /\ posts[1].caller = 2
  /\ posts[1].payload # posts[2].payload
  /\ call[2].pc = "awaiting"
  /\ call[1].pc = "resolved"
  /\ transport[1].state = "rejected"

\* C10: acceptance or rejection, and the message, depend only on
\* templateName and the four prompt sources: records agreeing on those five
\* fields get the same outcome whatever their other fields; in particular a
\* record with a templateName and exactly one prompt source is transmitted,
\* also when model or output is absent.
C10_OutcomeDependsOnFiveFields ==
  /\ SameRecordSameOutcome
  /\ \A c \in CallIds :
       ( /\ Started(c)
         /\ Truthy(call[c].options.templateName)
         /\ Cardinality(PresentSources(call[c].options)) = 1 )
       => /\ call[c].pc # "rejected"
          /\ Cardinality(PostsBy(c)) = 1

====
